---- MODULE Spec2Model ----
(***************************************************************************)
(* Model of the Maven OAuth action (src/src/index.js): the run() handler,  *)
(* the OAuth client-credentials exchange getAccessToken and the renderer   *)
(* createMavenSettings, together with the earlier three-argument renderer  *)
(* kept in src/unnamed/part_000.                                           *)
(*                                                                         *)
(* Strings are sequences of symbols.  A fixed piece of a template literal  *)
(* is one symbol; interpolated data (the secret, the token, a body) is one *)
(* symbol per character, so that "the message contains the secret" is a    *)
(* question about contiguous subsequences and not about labels.            *)
(***************************************************************************)
EXTENDS Integers, Sequences, FiniteSets, TLC

VARIABLES
    pc,            \* position of run(): start, probing, awaiting, settled, done
    env,           \* INPUT_CLIENT-SECRET as the runner supplies it
    request,       \* sequence of the POSTs handed to axios (form parameters)
    settled,       \* how the axios promise settled
    accessToken,   \* the local accessToken of run(): [present, val]
    fs,            \* the directory ~/.m2 and the file ~/.m2/settings.xml
    written,       \* what this invocation passed to fs.writeFileSync
    core,          \* the calls made on @actions/core, in order
    call           \* arguments of a direct call of the exported renderer

vars == <<pc, env, request, settled, accessToken, fs, written, core, call>>

\* ------------------------------------------------------------------ bounds

MaxSecretLen == 2
MaxTokenLen == 2

\* ------------------------------------------------------- program constants

AxiosTimeoutMs == 30000

oauthServerUrl == "https://login.curity.io/internal/oauth-token"
clientId == "curity-cli-github"
scope == <<>>
serverId == [present |-> TRUE, val |-> <<"curity-repo">>]
uploadServerId == [present |-> TRUE, val |-> <<"curity-upload-repo">>]
uploadServerUrl == "https://hub.curityio.net/repository/customer-release-repo/"
settingsPath == "~/.m2/settings.xml"
DevRepoUrl == "https://hub.curityio.net/repository/curity-dev-repo-group/"
ReleaseRepoUrl == "https://hub.curityio.net/repository/curity-release-repo/"

\* ----------------------------------------------------------------- strings

SeqsUpTo(S, n) == UNION {[1..k -> S] : k \in 0..n}

Undefined == [present |-> FALSE, val |-> <<>>]
Str(s) == [present |-> TRUE, val |-> s]

SecretChars == {"s", " "}
\* characters of a token the endpoint issues, and of a token handed to the
\* exported renderer
TokenChars == {"a", "<"}
RenderChars == TokenChars \cup {"&", ">"}
Statuses == {200, 201, 302, 401, 500}

\* s[i..j] occurs in hay as a contiguous run of symbols
Contains(hay, needle) ==
    \E i \in 0..(Len(hay) - Len(needle)) :
        SubSeq(hay, i + 1, i + Len(needle)) = needle

IsSpace(c) == c = " "

RECURSIVE trimStart(_)
trimStart(s) ==
    IF s # <<>> /\ IsSpace(Head(s)) THEN trimStart(Tail(s)) ELSE s

RECURSIVE trimEnd(_)
trimEnd(s) ==
    IF s # <<>> /\ IsSpace(s[Len(s)]) THEN trimEnd(SubSeq(s, 1, Len(s) - 1)) ELSE s

\* String.prototype.trim
trim(s) == trimEnd(trimStart(s))

\* core.getInput(name, {required: true}): throws on an empty value, and
\* otherwise returns the value trimmed.
getInputThrows(val) == val = <<>>
getInput(val) == trim(val)

\* ------------------------------------------------------------------- axios

NoData == [kind |-> "null", access_token |-> Undefined, error |-> Undefined,
           extras |-> FALSE]

\* A parsed JSON object: access_token and error are optional members; extras
\* stands for token_type, expires_in, scope and unknown members.
Objects(secret) ==
    [kind : {"object"},
     access_token : {Undefined} \cup {Str(t) : t \in SeqsUpTo(TokenChars, MaxTokenLen)},
     error : {Undefined, Str(<<"e">>), Str(secret)},
     extras : BOOLEAN]

\* What the server may answer with: no body, a text body, or a JSON object.
\* The server has read the request, so a body may repeat the client secret.
Bodies(secret) ==
    {NoData}
    \cup {[NoData EXCEPT !.kind = "text", !.error = Str(t)] : t \in {<<>>, <<"e">>}}
    \cup Objects(secret)

Quoted(s) == <<"\"">> \o s \o <<"\"">>

Member(name, v) == IF v.present THEN <<name>> \o Quoted(v.val) ELSE <<>>

\* JSON.stringify(data)
JSONstringify(data) ==
    CASE data.kind = "null" -> <<"null">>
      [] data.kind = "text" -> Quoted(data.error.val)
      [] OTHER -> <<"{">> \o Member("access_token:", data.access_token)
                         \o Member("error:", data.error)
                         \o (IF data.extras THEN <<"token_type:", "expires_in:">> ELSE <<>>)
                         \o <<"}">>

\* axios' default validateStatus: the promise resolves on 2xx and rejects
\* with error.response on every other status.
validateStatus(status) == status >= 200 /\ status < 300

NoError == [response |-> FALSE, status |-> 0, data |-> NoData,
            request |-> FALSE, message |-> <<>>]

\* the promise of axios.post settles with an HTTP response
Answered(status, data) ==
    IF validateStatus(status)
    THEN [type |-> "resolved", status |-> status, data |-> data, error |-> NoError]
    ELSE [type |-> "rejected", status |-> status, data |-> data,
          error |-> [response |-> TRUE, status |-> status, data |-> data,
                     request |-> TRUE,
                     message |-> <<"Request failed with status code ", ToString(status)>>]]

\* the request was made and no response came: a network error, or the
\* timeout of 30000 ms
Unanswered(timeout) ==
    [type |-> "rejected", status |-> 0, data |-> NoData,
     error |-> [response |-> FALSE, status |-> 0, data |-> NoData, request |-> TRUE,
                message |-> IF timeout
                            THEN <<"timeout of ", ToString(AxiosTimeoutMs), "ms exceeded">>
                            ELSE <<"getaddrinfo ENOTFOUND login.curity.io">>]]

\* the request could not be set up
NotSent ==
    [type |-> "rejected", status |-> 0, data |-> NoData,
     error |-> [response |-> FALSE, status |-> 0, data |-> NoData, request |-> FALSE,
                message |-> <<"Unsupported protocol">>]]

Pending == [type |-> "pending", status |-> 0, data |-> NoData, error |-> NoError]

\* ---------------------------------------------------------- getAccessToken

\* JavaScript truthiness of response.data and of a string member
TruthyData(data) ==
    data.kind = "object" \/ (data.kind = "text" /\ data.error.val # <<>>)
TruthyStr(v) == v.present /\ v.val # <<>>
access_token(data) == IF data.kind = "object" THEN data.access_token ELSE Undefined

\* a check that forgets the status
HasToken_AnyStatus(r) == TruthyData(r.data) /\ TruthyStr(access_token(r.data))

\* the condition of line 59
HasToken(r) ==
    r.status = 200 /\ TruthyData(r.data) /\ TruthyStr(access_token(r.data))

\* the try block: what it throws, NoError when it returns the token
Thrown(r) ==
    IF r.type = "resolved"
    THEN IF HasToken(r) THEN NoError
         ELSE [NoError EXCEPT !.message = <<"No access token in response">>]
    ELSE r.error

\* a catch block that asks for error.request first: axios sets it on HTTP
\* errors too
Rethrown_RequestFirst(error) ==
    IF error.request
    THEN <<"No response received from OAuth server: ">> \o error.message
    ELSE IF error.response
    THEN <<"OAuth request failed with status ", ToString(error.status), ": ">>
         \o JSONstringify(error.data)
    ELSE <<"OAuth request error: ">> \o error.message

\* a catch block without the error.request branch
Rethrown_NoRequestBranch(error) ==
    IF error.response
    THEN <<"OAuth request failed with status ", ToString(error.status), ": ">>
         \o JSONstringify(error.data)
    ELSE <<"OAuth request error: ">> \o error.message

\* the catch block: the message of the Error it throws
Rethrown(error) ==
    IF error.response
    THEN <<"OAuth request failed with status ", ToString(error.status), ": ">>
         \o JSONstringify(error.data)
    ELSE IF error.request
    THEN <<"No response received from OAuth server: ">> \o error.message
    ELSE <<"OAuth request error: ">> \o error.message

\* getAccessToken once the promise has settled as r
getAccessToken(r) ==
    IF Thrown(r) = NoError
    THEN [ok |-> TRUE, token |-> access_token(r.data), message |-> <<>>]
    ELSE [ok |-> FALSE, token |-> Undefined, message |-> Rethrown(Thrown(r))]


\* ----------------------------------------------------- createMavenSettings

\* A document is a sequence of pieces: markup written in the template
\* (open, close, the XML declaration), text written in the template (txt),
\* and the characters an interpolation ${...} puts in (chr).
Open(n) == <<<<"open", n>>>>
Close(n) == <<<<"close", n>>>>
Txt(t) == <<<<"txt", t>>>>
Leaf(n, content) == Open(n) \o content \o Close(n)

\* an interpolation that writes nothing for an undefined argument
Interpolate_EmptyOnUndefined(v) ==
    IF v.present THEN [i \in 1..Len(v.val) |-> <<"chr", v.val[i]>>] ELSE <<>>

\* ${v} in a template literal: String(v), character by character, with no
\* escaping; an undefined argument is rendered as the word undefined.
Interpolate(v) ==
    IF v.present THEN [i \in 1..Len(v.val) |-> <<"chr", v.val[i]>>]
    ELSE <<<<"chr", "undefined">>>>

httpHeaders(token) ==
    Leaf("configuration",
         Leaf("httpHeaders",
              Leaf("property",
                   Leaf("name", Txt("Authorization"))
                   \o Leaf("value", Txt("Bearer ") \o Interpolate(token)))))

server(id, token) == Leaf("server", Leaf("id", Interpolate(id)) \o httpHeaders(token))

\* the template of src/index.js, lines 84-121
createMavenSettings(token, sid, uploadId) ==
    <<<<"decl", "xml">>>>
    \o Leaf("settings",
            Leaf("servers", server(sid, token) \o server(uploadId, token))
            \o Leaf("mirrors",
                    Leaf("mirror",
                         Leaf("id", Interpolate(sid))
                         \o Leaf("name", Txt("Curity Maven Repository"))
                         \o Leaf("url", Txt(DevRepoUrl))
                         \o Leaf("mirrorOf", Txt("*")))))

\* the template of the earlier three-argument renderer
createMavenSettingsMirrorOnly(token, sid) ==
    <<<<"decl", "xml">>>>
    \o Leaf("settings",
            Leaf("mirrors",
                 Leaf("mirror",
                      Leaf("id", Interpolate(sid))
                      \o Leaf("name", Txt("Curity Maven Repository"))
                      \o Leaf("url", Txt(ReleaseRepoUrl))
                      \o Leaf("mirrorOf", Txt("*"))
                      \o httpHeaders(token))))

\* ------------------------------------------------------- reading XML back

\* The entity reference that starts at the head of d: its length and the
\* character it stands for; length 0 when there is none.
Chr(d, i) == IF i <= Len(d) /\ d[i][1] = "chr" THEN d[i][2] ELSE ""
EntityAt(d) ==
    IF Chr(d, 1) = "&" /\ Chr(d, 2) = "l" /\ Chr(d, 3) = "t" /\ Chr(d, 4) = ";"
    THEN [len |-> 4, char |-> "<"]
    ELSE IF Chr(d, 1) = "&" /\ Chr(d, 2) = "g" /\ Chr(d, 3) = "t" /\ Chr(d, 4) = ";"
    THEN [len |-> 4, char |-> ">"]
    ELSE IF Chr(d, 1) = "&" /\ Chr(d, 2) = "a" /\ Chr(d, 3) = "m" /\ Chr(d, 4) = "p"
            /\ Chr(d, 5) = ";"
    THEN [len |-> 5, char |-> "&"]
    ELSE [len |-> 0, char |-> ""]

Drop(d, n) == SubSeq(d, n + 1, Len(d))

\* Well-formedness: tags nest, and character data holds no '<' and no '&'
\* other than the start of an entity reference.  An interpolated '<' opens
\* markup that the characters of TokenChars cannot complete.
RECURSIVE Nests(_, _)
Nests(d, stack) ==
    IF d = <<>> THEN stack = <<>>
    ELSE LET h == Head(d) IN
         CASE h[1] = "open" -> Nests(Tail(d), Append(stack, h[2]))
           [] h[1] = "close" ->
                /\ stack # <<>>
                /\ stack[Len(stack)] = h[2]
                /\ Nests(Tail(d), SubSeq(stack, 1, Len(stack) - 1))
           [] h[1] = "chr" ->
                IF h[2] = "<" THEN FALSE
                ELSE IF h[2] = "&"
                THEN EntityAt(d).len > 0 /\ Nests(Drop(d, EntityAt(d).len), stack)
                ELSE stack # <<>> /\ Nests(Tail(d), stack)
           [] h[1] = "txt" -> stack # <<>> /\ Nests(Tail(d), stack)
           [] OTHER -> Nests(Tail(d), stack)

WellFormed(d) == Nests(d, <<>>)

\* the character data of d, entity references replaced
RECURSIVE TextOf(_)
TextOf(d) ==
    IF d = <<>> THEN <<>>
    ELSE LET h == Head(d) IN
         IF h[1] = "chr" /\ EntityAt(d).len > 0
         THEN <<EntityAt(d).char>> \o TextOf(Drop(d, EntityAt(d).len))
         ELSE IF h[1] \in {"chr", "txt"} THEN <<h[2]>> \o TextOf(Tail(d))
         ELSE TextOf(Tail(d))

\* index of the first piece p in d, 0 when there is none
RECURSIVE IndexOf(_, _, _)
IndexOf(d, p, i) ==
    IF i > Len(d) THEN 0 ELSE IF d[i] = p THEN i ELSE IndexOf(d, p, i + 1)

\* the contents of the elements named n in d, in document order
RECURSIVE Elements(_, _)
Elements(d, n) ==
    LET o == IndexOf(d, <<"open", n>>, 1)
        c == IF o = 0 THEN 0 ELSE IndexOf(d, <<"close", n>>, o)
    IN IF o = 0 \/ c = 0 THEN <<>>
       ELSE <<SubSeq(d, o + 1, c - 1)>> \o Elements(Drop(d, c), n)

\* the text of the first element named n in d
TextIn(d, n) == IF Elements(d, n) = <<>> THEN <<>> ELSE TextOf(Elements(d, n)[1])

\* every <value> of the document, as text
Values(d) == [i \in 1..Len(Elements(d, "value")) |-> TextOf(Elements(d, "value")[i])]
ServerIds(d) ==
    [i \in 1..Len(Elements(d, "server")) |-> TextIn(Elements(d, "server")[i], "id")]
Mirrors(d) == Elements(d, "mirror")


\* ------------------------------------------------------------ @actions/core

Info(text) == [op |-> "info", name |-> "", text |-> text]
Debug(text) == [op |-> "debug", name |-> "", text |-> text]
SetFailed(text) == [op |-> "setFailed", name |-> "", text |-> text]
SetOutput(name, text) == [op |-> "setOutput", name |-> name, text |-> text]
SetSecret(text) == [op |-> "setSecret", name |-> "", text |-> text]

\* --------------------------------------------------------------------- run

NoFile == [present |-> FALSE, doc |-> <<>>]
File(doc) == [present |-> TRUE, doc |-> doc]

\* a settings.xml that an earlier invocation left
OldFile == File(createMavenSettings(Str(<<"a">>), serverId, uploadServerId))

Disks == {[dir |-> FALSE, file |-> NoFile], [dir |-> TRUE, file |-> NoFile],
          [dir |-> TRUE, file |-> OldFile]}

NoCall == [token |-> Undefined, serverId |-> Undefined, uploadServerId |-> Undefined]

\* new URLSearchParams({...}); scope is appended only when non-empty
URLSearchParams(secret, sc) ==
    [url |-> oauthServerUrl, grant_type |-> "client_credentials",
     client_id |-> clientId, client_secret |-> secret,
     scope |-> IF sc # <<>> THEN Str(sc) ELSE Undefined]

\* the log line of checkMavenAvailable for each way exec can end
ProbeLog(exit) ==
    CASE exit = "zero" -> <<Info(<<"Maven is available: ", "Apache Maven 3.9.6">>)>>
      [] exit = "throws" -> <<Debug(<<"Maven check failed: ", "spawn mvn ENOENT">>)>>
      [] OTHER -> <<>>

\* a probe that ignores the exit code
checkMavenAvailable_AnyExit(exit) == exit # "throws"

checkMavenAvailable(exit) == exit = "zero"

\* the token written to the output before it is masked
Outputs_MaskLate(path, token) ==
    << SetOutput("settings-file", <<path>>),
       SetOutput("access-token", token),
       SetSecret(token),
       SetOutput("maven-deploy-args",
                 <<"-DaltDeploymentRepository={", uploadServerId.val[1],
                   "}::default::", uploadServerUrl>>),
       Info(<<"Action completed successfully">>) >>

\* lines 170-177: the outputs of a successful run, in the order of the code
Outputs(path, token) ==
    << SetOutput("settings-file", <<path>>),
       SetSecret(token),
       SetOutput("access-token", token),
       SetOutput("maven-deploy-args",
                 <<"-DaltDeploymentRepository={", uploadServerId.val[1],
                   "}::default::", uploadServerUrl>>),
       Info(<<"Action completed successfully">>) >>

Init ==
    /\ pc = "start"
    /\ env \in SeqsUpTo(SecretChars, MaxSecretLen)
    /\ request = <<>>
    /\ settled = Pending
    /\ accessToken = Undefined
    /\ fs \in Disks
    /\ written = <<>>
    /\ core = <<>>
    /\ call = NoCall

\* run() starts and awaits exec('mvn', ['--version'])
RunStart ==
    /\ pc = "start"
    /\ pc' = "probing"
    /\ UNCHANGED <<env, request, settled, accessToken, fs, written, core, call>>

\* exec has ended: run() goes on to the await of axios.post, or ends
ProbeReturns ==
    /\ pc = "probing"
    /\ \E exit \in {"zero", "nonzero", "throws"} :
         IF ~checkMavenAvailable(exit)
         THEN /\ core' = core \o ProbeLog(exit)
                    \o <<SetFailed(<<"Maven is not available in the environment.">>)>>
              /\ pc' = "done"
              /\ UNCHANGED <<request, settled>>
         ELSE IF getInputThrows(env)
         THEN /\ core' = core \o ProbeLog(exit)
                    \o <<SetFailed(<<"Action failed: ",
                                     "Input required and not supplied: client-secret">>)>>
              /\ pc' = "done"
              /\ UNCHANGED <<request, settled>>
         ELSE IF trim(getInput(env)) = <<>>
         THEN /\ core' = core \o ProbeLog(exit)
                    \o <<SetFailed(<<"Action failed: ", "client-secret cannot be empty">>)>>
              /\ pc' = "done"
              /\ UNCHANGED <<request, settled>>
         ELSE /\ core' = core \o ProbeLog(exit)
                    \o <<Info(<<"Requesting OAuth access token...">>)>>
              /\ request' = Append(request, URLSearchParams(getInput(env), scope))
              /\ settled' = Pending
              /\ pc' = "awaiting"
    /\ UNCHANGED <<env, accessToken, fs, written, call>>

\* the token endpoint answers
ServerAnswers ==
    /\ pc = "awaiting"
    /\ \E status \in Statuses, data \in Bodies(request[1].client_secret) :
         settled' = Answered(status, data)
    /\ pc' = "settled"
    /\ UNCHANGED <<env, request, accessToken, fs, written, core, call>>

\* no answer: the network fails, or the 30 s timeout of the request fires
NoResponse ==
    /\ pc = "awaiting"
    /\ \E timeout \in BOOLEAN : settled' = Unanswered(timeout)
    /\ pc' = "settled"
    /\ UNCHANGED <<env, request, accessToken, fs, written, core, call>>

\* axios fails before anything is sent
RequestNotSent ==
    /\ pc = "awaiting"
    /\ settled' = NotSent
    /\ pc' = "settled"
    /\ UNCHANGED <<env, request, accessToken, fs, written, core, call>>

\* getAccessToken throws: the catch of run() reports the failure
TokenRefused ==
    /\ pc = "settled"
    /\ ~getAccessToken(settled).ok
    /\ core' = Append(core, SetFailed(<<"Action failed: ">> \o getAccessToken(settled).message))
    /\ pc' = "done"
    /\ UNCHANGED <<env, request, settled, accessToken, fs, written, call>>

\* the log lines up to the write of createMavenSettings
TokenLog ==
    << Info(<<"Successfully obtained access token">>),
       Info(<<"Creating Maven settings.xml at: ", settingsPath>>) >>

\* getAccessToken returns, the file is written and the outputs are set
SettingsWritten ==
    /\ pc = "settled"
    /\ getAccessToken(settled).ok
    /\ LET token == getAccessToken(settled).token
           doc == createMavenSettings(token, serverId, uploadServerId)
       IN /\ accessToken' = token
          /\ written' = Append(written, doc)
          /\ fs' = [dir |-> TRUE, file |-> File(doc)]
          /\ core' = core \o TokenLog
                     \o <<Info(<<"Maven settings.xml created successfully">>)>>
                     \o Outputs(settingsPath, token.val)
    /\ pc' = "done"
    /\ UNCHANGED <<env, request, settled, call>>

\* fs.mkdirSync throws (permissions, a file in the way)
MkdirThrows ==
    /\ pc = "settled"
    /\ getAccessToken(settled).ok
    /\ ~fs.dir
    /\ accessToken' = getAccessToken(settled).token
    /\ core' = core \o TokenLog
               \o <<SetFailed(<<"Action failed: ", "EACCES: permission denied, mkdir ", "~/.m2">>)>>
    /\ pc' = "done"
    /\ UNCHANGED <<env, request, settled, fs, written, call>>

\* fs.writeFileSync throws: the old file stays, or a truncated one is left
WriteThrows ==
    /\ pc = "settled"
    /\ getAccessToken(settled).ok
    /\ LET token == getAccessToken(settled).token
       IN /\ accessToken' = token
          /\ written' = Append(written, createMavenSettings(token, serverId, uploadServerId))
    /\ \E left \in {fs.file, File(<<>>)} : fs' = [dir |-> TRUE, file |-> left]
    /\ core' = core \o TokenLog
               \o <<SetFailed(<<"Action failed: ", "ENOSPC: no space left on device, write">>)>>
    /\ pc' = "done"
    /\ UNCHANGED <<env, request, settled, call>>

Next ==
    \/ RunStart
    \/ ProbeReturns
    \/ ServerAnswers
    \/ NoResponse
    \/ RequestNotSent
    \/ TokenRefused
    \/ SettingsWritten
    \/ MkdirThrows
    \/ WriteThrows

Spec == Init /\ [][Next]_vars

\* exec ends, the axios promise settles (the response, an error, or the
\* timeout of the request), and each continuation of run() then runs
FairSpec ==
    /\ Spec
    /\ WF_vars(RunStart)
    /\ WF_vars(ProbeReturns)
    /\ WF_vars(ServerAnswers \/ NoResponse \/ RequestNotSent)
    /\ WF_vars(TokenRefused \/ SettingsWritten \/ MkdirThrows \/ WriteThrows)


\* ------------------------------------------- the renderer, called directly

\* createMavenSettings is exported: a caller passes any token, and may leave
\* uploadServerId out.
RenderTokens ==
    {Str(t) : t \in SeqsUpTo(RenderChars, MaxTokenLen) \cup {<<"&", "l", "t", ";">>}}

Calls ==
    [token : RenderTokens,
     serverId : {serverId, Str(<<"my-repo">>)},
     uploadServerId : {Undefined, uploadServerId}]

RenderInit ==
    /\ pc = "call"
    /\ call \in Calls
    /\ env = <<>>
    /\ request = <<>>
    /\ settled = Pending
    /\ accessToken = Undefined
    /\ fs \in Disks
    /\ written = <<>>
    /\ core = <<>>

\* createMavenSettings(accessToken, serverId, uploadServerId, settingsPath)
CallCreateMavenSettings ==
    /\ pc = "call"
    /\ LET doc == createMavenSettings(call.token, call.serverId, call.uploadServerId)
       IN /\ written' = Append(written, doc)
          /\ fs' = [dir |-> TRUE, file |-> File(doc)]
    /\ core' = core \o <<Info(<<"Creating Maven settings.xml at: ", settingsPath>>),
                         Info(<<"Maven settings.xml created successfully">>)>>
    /\ pc' = "rendered"
    /\ UNCHANGED <<env, request, settled, accessToken, call>>

\* the earlier createMavenSettings(accessToken, serverId, settingsPath)
CallCreateMavenSettingsMirrorOnly ==
    /\ pc = "call"
    /\ LET doc == createMavenSettingsMirrorOnly(call.token, call.serverId)
       IN /\ written' = Append(written, doc)
          /\ fs' = [dir |-> TRUE, file |-> File(doc)]
    /\ core' = core \o <<Info(<<"Creating Maven settings.xml at: ", settingsPath>>),
                         Info(<<"Maven settings.xml created successfully">>)>>
    /\ pc' = "renderedMirrorOnly"
    /\ UNCHANGED <<env, request, settled, accessToken, call>>

RenderNext ==
    \/ CallCreateMavenSettings
    \/ CallCreateMavenSettingsMirrorOnly

RenderSpec == RenderInit /\ [][RenderNext]_vars


\* ------------------------------------------------------------------ claims

Failures == {i \in 1..Len(core) : core[i].op = "setFailed"}
Failed == Failures # {}
FailureText == core[CHOOSE i \in Failures : TRUE].text
OutputsSet == {i \in 1..Len(core) : core[i].op = "setOutput"}
MavenReported ==
    \E i \in 1..Len(core) : core[i].op = "info" /\ core[i].text[1] = "Maven is available: "

\* The failure kind a message belongs to, read from the template it was
\* built from.
Kind(text) ==
    IF text[1] = "Maven is not available in the environment." THEN "ToolUnavailable"
    ELSE CASE text[2] \in {"Input required and not supplied: client-secret",
                           "client-secret cannot be empty"} -> "InvalidInput"
           [] text[2] = "OAuth request failed with status " -> "ServerRejected"
           [] text[2] = "No response received from OAuth server: " -> "Unreachable"
           [] text[2] = "OAuth request error: " -> "RequestError"
           [] text[2] = "No access token in response" -> "MalformedResponse"
           [] OTHER -> "WriteError"

\* the endpoint answered (with any status)
Responded == pc \in {"settled", "done"} /\ settled.status # 0

\* the answer the specification accepts: 200 and a JSON object with a
\* non-empty access_token
GoodAnswer ==
    /\ Responded
    /\ settled.status = 200
    /\ settled.data.kind = "object"
    /\ settled.data.access_token.present
    /\ settled.data.access_token.val # <<>>

HasBody(data) == data.kind = "object" \/ (data.kind = "text" /\ data.error.val # <<>>)

\* C1: a token request is issued only after the Maven probe has succeeded and
\* the client secret is non-empty after trimming; a run whose probe fails, or
\* whose secret is empty or whitespace-only, ends failed (tool not installed,
\* respectively invalid input) with no network call and no file written.
C1_RequestOnlyAfterChecks ==
    /\ request # <<>> => MavenReported /\ trim(env) # <<>>
    /\ pc = "done" /\ ~MavenReported =>
          /\ Failed /\ Kind(FailureText) = "ToolUnavailable"
          /\ request = <<>> /\ written = <<>>
    /\ pc = "done" /\ MavenReported /\ trim(env) = <<>> =>
          /\ Failed /\ Kind(FailureText) = "InvalidInput"
          /\ request = <<>> /\ written = <<>>

C1_Witness ==
    /\ pc = "done" /\ MavenReported /\ env = <<" ", " ">>
    /\ Failed /\ request = <<>>

\* C2: getAccessToken succeeds exactly when the endpoint answers 200 with a
\* JSON object whose access_token is present and non-empty, and then returns
\* that very value, whatever else the body holds; otherwise it fails and
\* yields no token.
C2_TokenIffGoodAnswer ==
    /\ settled.type # "pending" =>
          /\ getAccessToken(settled).ok <=> GoodAnswer
          /\ getAccessToken(settled).ok =>
                getAccessToken(settled).token = settled.data.access_token
          /\ ~getAccessToken(settled).ok => ~getAccessToken(settled).token.present
    /\ pc = "done" /\ request # <<>> =>
          /\ accessToken.present <=> GoodAnswer
          /\ accessToken.present => accessToken = settled.data.access_token
          /\ ~accessToken.present => Failed

C2_Witness ==
    /\ pc = "done" /\ settled.data.extras /\ settled.data.error.present
    /\ accessToken = Str(<<"a", "<">>)

C4_MalformedIsOwnKind ==
    pc = "done" /\ Responded /\ settled.status = 200 /\ ~GoodAnswer =>
        /\ Failed
        /\ Kind(FailureText) = "MalformedResponse"
        /\ Kind(FailureText) \notin {"ServerRejected", "Unreachable", "RequestError"}


\* C5: for every token and either variant the rendered document is
\* well-formed XML, reading it back gives "Bearer " and the original token in
\* every Authorization value, and a '<' of the token is not written verbatim.
C5_TokenRoundTrips ==
    pc \in {"rendered", "renderedMirrorOnly"} =>
        /\ WellFormed(fs.file.doc)
        /\ \A i \in 1..Len(Values(fs.file.doc)) :
               Values(fs.file.doc)[i] = <<"Bearer ">> \o call.token.val
        /\ \A i \in 1..Len(fs.file.doc) : fs.file.doc[i] # <<"chr", "<">>

\* the content of d as written, entity references left as they are
RawText(d) ==
    LET t == SelectSeq(d, LAMBDA p : p[1] \in {"chr", "txt"})
    IN [i \in 1..Len(t) |-> t[i][2]]
RawTextIn(d, n) == IF Elements(d, n) = <<>> THEN <<>> ELSE RawText(Elements(d, n)[1])

\* the single-mirror document: no server, one mirror (id, '*', the release
\* URL) with the Bearer header on the mirror
SingleMirror(d, sid, token) ==
    /\ Elements(d, "servers") = <<>> /\ Elements(d, "server") = <<>>
    /\ Len(Mirrors(d)) = 1
    /\ TextIn(Mirrors(d)[1], "id") = sid.val
    /\ TextIn(Mirrors(d)[1], "mirrorOf") = <<"*">>
    /\ TextIn(Mirrors(d)[1], "url") = <<ReleaseRepoUrl>>
    /\ Len(Elements(Mirrors(d)[1], "value")) = 1
    /\ RawTextIn(Mirrors(d)[1], "value") = <<"Bearer ">> \o token.val

\* the dual-server document: two servers with the ids given, each with the
\* Bearer header, and one mirror (id, '*', the dev URL) without a header
DualServer(d, sid, upId, token) ==
    /\ Len(Elements(d, "server")) = 2
    /\ ServerIds(d) = <<sid, upId>>
    /\ \A i \in 1..2 :
          RawTextIn(Elements(d, "server")[i], "value") = <<"Bearer ">> \o token.val
    /\ Len(Mirrors(d)) = 1
    /\ TextIn(Mirrors(d)[1], "id") = sid
    /\ TextIn(Mirrors(d)[1], "mirrorOf") = <<"*">>
    /\ TextIn(Mirrors(d)[1], "url") = <<DevRepoUrl>>
    /\ TextIn(Mirrors(d)[1], "url") # <<ReleaseRepoUrl>>
    /\ Elements(Mirrors(d)[1], "value") = <<>>

\* C6 as stated: the renderer picks the variant from uploadServerId (absent:
\* single mirror; present: dual server), and never writes a server entry
\* whose id was not supplied.
C6_VariantFollowsUploadServerId ==
    pc = "rendered" =>
        /\ IF call.uploadServerId.present
           THEN DualServer(fs.file.doc, call.serverId.val, call.uploadServerId.val,
                           call.token)
           ELSE SingleMirror(fs.file.doc, call.serverId, call.token)
        /\ \A i \in 1..Len(ServerIds(fs.file.doc)) :
               \/ ServerIds(fs.file.doc)[i] = call.serverId.val
               \/ /\ call.uploadServerId.present
                  /\ ServerIds(fs.file.doc)[i] = call.uploadServerId.val

\* C6 amended: the four-argument renderer selects nothing.  It always writes
\* the dual-server document, the second server carrying the upload id, or the
\* id "undefined" when uploadServerId is absent; the single-mirror document
\* is written only by the earlier three-argument renderer.
C6_AlwaysDualServer ==
    /\ pc = "rendered" =>
          DualServer(fs.file.doc, call.serverId.val,
                     IF call.uploadServerId.present THEN call.uploadServerId.val
                     ELSE <<"undefined">>,
                     call.token)
    /\ pc = "renderedMirrorOnly" =>
          SingleMirror(fs.file.doc, call.serverId, call.token)

C6_Witness ==
    /\ pc = "rendered" /\ ~call.uploadServerId.present
    /\ ServerIds(fs.file.doc) = <<call.serverId.val, <<"undefined">>>>
    /\ call.token = Str(<<"a", "&">>)
    /\ fs.file.present

\* C7: no failure message holds the client secret, whatever the server
\* answers and also when the message embeds the server's body.
C7_NoSecretInFailure ==
    \A i \in Failures :
        getInput(env) # <<>> => ~Contains(core[i].text, getInput(env))

\* C8: the bearer token goes to the settings document and to the
\* access-token output only: no info, debug or failure message and no other
\* output holds it, and setSecret(token) comes before the access-token output.
C8_TokenSinks ==
    accessToken.present =>
        \A i \in 1..Len(core) :
            /\ core[i].op \in {"info", "debug", "setFailed"} =>
                  ~Contains(core[i].text, accessToken.val)
            /\ core[i].op = "setOutput" /\ core[i].name # "access-token" =>
                  ~Contains(core[i].text, accessToken.val)
            /\ core[i].op = "setOutput" /\ core[i].name = "access-token" =>
                  /\ core[i].text = accessToken.val
                  /\ \E j \in 1..(i - 1) :
                        core[j].op = "setSecret" /\ core[j].text = accessToken.val

C8_Witness ==
    /\ pc = "done" /\ accessToken = Str(<<"a">>)
    /\ \E i \in OutputsSet : core[i].name = "access-token"
    /\ fs.file.present /\ Contains(RawText(fs.file.doc), <<"Bearer ", "a">>)

\* the request was made and nothing came back
Unanswerable == pc = "settled" /\ settled \in {Unanswered(TRUE), Unanswered(FALSE)}

\* C9: a token request always settles; when no response comes (a network
\* failure, or the 30 s timeout) the run ends failed as Unreachable, with no
\* settings file written and no output set.
C9_NoResponseEndsUnreachable ==
    /\ (pc = "awaiting") ~> (pc \in {"settled", "done"})
    /\ Unanswerable ~>
          (/\ pc = "done" /\ Failed /\ Kind(FailureText) = "Unreachable"
           /\ written = <<>> /\ OutputsSet = {} /\ ~accessToken.present)

C9_Witness ==
    /\ pc = "done" /\ settled = Unanswered(TRUE)
    /\ Failed /\ Kind(FailureText) = "Unreachable"
    /\ Contains(FailureText, <<ToString(AxiosTimeoutMs)>>)

\* C10: a run that wrote settings.xml removes it again: when the action has
\* ended, the file it wrote is no longer on disk.
C10_SettingsRemoved ==
    pc = "done" /\ written # <<>> /\ ~Failed => ~fs.file.present


====
